---- MODULE Spec2Model ----
(***************************************************************************)
(* Model of the MoneyOS backend (src/server.js) and of its SMS relay       *)
(* service (src/unnamed/part_001).                                         *)
(*                                                                         *)
(* The ledger handlers (transactions, sync, budgets, onboarding) are       *)
(* modelled as request processes that take one step per store round trip   *)
(* (one step per `await`), so that two requests can interleave exactly     *)
(* where the Node event loop lets them.  SeqSpec runs one request at a     *)
(* time to completion, Spec lets two requests overlap.  InboxSpec is the   *)
(* relay: push-sms appends to the inbox, sync-sms pulls and clears it      *)
(* (server.js:350-364 is the same pull over its own Message model).        *)
(*                                                                         *)
(* Store semantics used (MongoDB / Mongoose):                              *)
(*  - neither collection has a unique index besides _id (schemas at        *)
(*    server.js:41-64), so an upsert is "find, then insert when nothing    *)
(*    matched", and two upserts can both miss and both insert;             *)
(*  - an update of one matched document ($inc, $set) is atomic;            *)
(*  - update documents without operators are applied as $set;              *)
(*  - schema defaults are applied on insert (spent defaults to 0);         *)
(*  - users.username has the unique index its schema declares              *)
(*    (server.js:85), so saving a second user with a stored username       *)
(*    fails with a duplicate-key error.                                    *)
(*                                                                         *)
(* RegisterSpec is POST /api/auth/register, two requests overlapping.      *)
(* InboxBacklogSpec is the relay started with more pending messages than   *)
(* one pull returns.  DrainSpec is the same relay with a client that keeps *)
(* polling and with every pull running to completion.                      *)
(***************************************************************************)
EXTENDS Integers, Sequences, FiniteSets, Bags, TLC

\* ---------------------------------------------------------------- bounds
MaxBatch == 2
MaxReqs == 3
MaxOverlap == 2
MaxPush == 3
MaxPull == 3
MaxBudgetId == 2
MaxRegister == 3

\* ---------------------------------------------------------------- inputs
Users == {"u1", "u2"}
Categories == {"food", "rent"}
Procs == {1, 2}

\* A payload amount that Mongoose cannot cast to Number (e.g. "abc").
NotANumber == 0 - 1

\* A payload without a userId field.
NoUser == ""

\* Transaction candidates a client may submit ({hash, type, amount, category},
\* and possibly a userId of the client's choosing).
Candidates ==
    { [hash |-> "h1", type |-> "DEBIT",  amount |-> 1, category |-> "food", userId |-> "u2"],
      [hash |-> "h2", type |-> "DEBIT",  amount |-> 2, category |-> "food", userId |-> NoUser],
      [hash |-> "h2", type |-> "CREDIT", amount |-> 2, category |-> "rent", userId |-> NoUser],
      [hash |-> "h3", type |-> "DEBIT",  amount |-> NotANumber, category |-> "food",
       userId |-> NoUser] }

\* limit(50) of both sync-sms handlers.
PullLimit == 50

\* Payload markers for an absent field.
NoId == 0
NoSpent == 0 - 1

Limits == {5, 9}

\* Budget payloads a client may submit: { category, limit } as the settings
\* page sends them, one that also carries `spent`, and ones that name an _id
\* the store has handed out (`ids`).
BudgetPayloads(ids) ==
    { [id |-> NoId, category |-> "food", limit |-> l, spent |-> NoSpent] : l \in Limits }
    \cup { [id |-> NoId, category |-> "rent", limit |-> 5, spent |-> NoSpent] }
    \cup { [id |-> NoId, category |-> "food", limit |-> 9, spent |-> 0] }
    \cup { [id |-> i, category |-> "rent", limit |-> 9, spent |-> NoSpent] : i \in ids }

\* initialBudgets entries of the onboarding form: { category, limit }.
InitialBudgets == { b \in BudgetPayloads({}) : b.spent = NoSpent /\ b.limit = 5 }

SeqsUpTo(S, n) == UNION { [1..k -> S] : k \in 0..n }

VARIABLES
    Transaction,   \* bag of stored transaction documents
    Budget,        \* set of stored budget documents (with _id)
    nextBudgetId,  \* next _id the store hands out for a budget
    pc, req, idx, loc, resp,   \* per request process: position, request, loop index, locals, response
    nreq,          \* number of requests started so far
    pre,           \* per request process: the collections as they were when its request arrived
    Message,       \* set of pending message documents (the relay's inbox)
    queued,        \* number of messages stored so far (the next message is number queued + 1)
    pushes,        \* number of push-sms requests received in this run
    pushReq,       \* the latest push-sms request: its x-sms-secret header, whether it has a body
    pushStatus,    \* status of the latest push-sms response
    pulls,         \* number of sync-sms requests received in this run
    ppc, found,    \* per pull process: position, the documents its find returned
    returned,      \* bag of message _ids: how many sync-sms responses carried each
    User,          \* set of stored user documents
    registers,     \* number of register requests received so far
    rpc, rreq,     \* per register process: position, request body
    rstatus        \* per register process: status of its response

ledger == <<Transaction, Budget, nextBudgetId, pc, req, idx, loc, resp, nreq, pre>>
inbox == <<Message, queued, pushes, pushReq, pushStatus, pulls, ppc, found, returned>>
accounts == <<User, registers, rpc, rreq, rstatus>>
vars == <<ledger, inbox, accounts>>

\* ------------------------------------------------------- store queries

\* Transaction.find({ userId: u, hash: h }): the filter of the sync upsert.
TxMatches(u, h) == { d \in BagToSet(Transaction) : d.userId = u /\ d.hash = h }

\* Budget.find({ userId: u, category: c }).
BudgetsOf(B, u, c) == { b \in B : b.userId = u /\ b.category = c }

\* Budget.find({ _id: i }).
BudgetById(B, i) == { b \in B : b.id = i }

\* ------------------------------------------------------ request records
NoAdded == 0 - 1
NoReq == [op |-> "none", user |-> "", txs |-> <<>>, buds |-> <<>>, id |-> NoId, again |-> FALSE]
NoResp == [status |-> 0, added |-> NoAdded]
NoLoc == [added |-> 0, bid |-> NoId, spent |-> 0]

Ok(n) == [status |-> 200, added |-> n]
Failed == [status |-> 500, added |-> NoAdded]

Idle(p) == pc[p] \in {"idle", "done"}

\* The relay's configured secret and the x-sms-secret headers a push-sms
\* request can carry (NoHeader: the header is absent).
SMS_SECRET == "s3cret"
NoHeader == ""
Headers == {SMS_SECRET, "guess", NoHeader}

\* Register request bodies: a username (NoName when the field is missing or
\* empty), a password that is present or not; `taken` records whether a User
\* with that username was stored when the request arrived.
Usernames == {"alice", "bob"}
NoName == ""
NoRegister == [username |-> NoName, password |-> FALSE, taken |-> FALSE]

\* Every request process is idle and nothing has been served.
Quiet ==
    /\ pc = [p \in Procs |-> "idle"]
    /\ req = [p \in Procs |-> NoReq]
    /\ idx = [p \in Procs |-> 1]
    /\ loc = [p \in Procs |-> NoLoc]
    /\ resp = [p \in Procs |-> NoResp]
    /\ nreq = 0
    /\ pre = [p \in Procs |-> [tx |-> EmptyBag, bud |-> {}]]
    /\ pushes = 0
    /\ pushReq = [secret |-> NoHeader, body |-> FALSE]
    /\ pushStatus = 0
    /\ pulls = 0
    /\ ppc = [p \in Procs |-> "idle"]
    /\ found = [p \in Procs |-> {}]
    /\ returned = EmptyBag
    /\ User = {}
    /\ registers = 0
    /\ rpc = [p \in Procs |-> "idle"]
    /\ rreq = [p \in Procs |-> NoRegister]
    /\ rstatus = [p \in Procs |-> 0]

\* The service right after it connected to an empty database.
Init ==
    /\ Transaction = EmptyBag
    /\ Budget = {}
    /\ nextBudgetId = 1
    /\ Message = {}
    /\ queued = 0
    /\ Quiet

\* The relay after the device has pushed one message more than a pull
\* returns, and nothing has been pulled yet.
Backlog == PullLimit + 1

InitBacklog ==
    /\ Transaction = EmptyBag
    /\ Budget = {}
    /\ nextBudgetId = 1
    /\ Message = { [id |-> i, receivedAt |-> i] : i \in 1..Backlog }
    /\ queued = Backlog
    /\ Quiet

\* The service a little later: u1 has set up a food budget (through
\* POST /api/budgets or onboarding), nothing has been spent yet.
InitServing ==
    /\ Transaction = EmptyBag
    /\ Budget = {[id |-> 1, userId |-> "u1", category |-> "food", limit |-> 5, spent |-> 0]}
    /\ nextBudgetId = 2
    /\ Message = {}
    /\ queued = 0
    /\ Quiet

\* A request of a user in U arrives at process p (at most `cap` requests are
\* served in a run): verifyToken has set req.userId, the body is parsed, and
\* the handler runs up to its first store call.
Accept(p, cap, r, at, answer) ==
    /\ Idle(p)
    /\ nreq < cap
    /\ nreq' = nreq + 1
    /\ req' = [req EXCEPT ![p] = r]
    /\ pc' = [pc EXCEPT ![p] = at]
    /\ idx' = [idx EXCEPT ![p] = 1]
    /\ loc' = [loc EXCEPT ![p] = NoLoc]
    /\ resp' = [resp EXCEPT ![p] = answer]
    /\ pre' = [pre EXCEPT ![p] = [tx |-> Transaction, bud |-> Budget]]
    /\ UNCHANGED <<Transaction, Budget, nextBudgetId, inbox, accounts>>

\* The handler at process p moves to position `at` (or answers and is done).
Goto(p, at) ==
    /\ pc' = [pc EXCEPT ![p] = at]
    /\ UNCHANGED resp
Answer(p, r) ==
    /\ pc' = [pc EXCEPT ![p] = "done"]
    /\ resp' = [resp EXCEPT ![p] = r]

Frame == UNCHANGED <<req, nreq, pre, inbox, accounts>>

\* ------------------------------------------------ documents and updates

\* Mongoose casts `amount` to the schema's Number; a value that does not cast
\* makes validation (save) or update casting (bulkWrite) throw.
Castable(t) == t.amount # NotANumber

\* (a document built as { userId: req.userId, ...tx }: a userId in the payload wins)
TxDocOfPayload(t, u) ==
    [userId |-> IF t.userId # NoUser THEN t.userId ELSE u, hash |-> t.hash, type |-> t.type,
     amount |-> t.amount, category |-> t.category]

\* { ...tx, userId: req.userId }: the caller's id replaces a userId of the payload.
TxDoc(t, u) ==
    [userId |-> u, hash |-> t.hash, type |-> t.type,
     amount |-> t.amount, category |-> t.category]

\* (a handler that aggregated CREDIT candidates too)
AffectsBudgetAlways(t) == TRUE

\* The handlers aggregate every candidate that is not a CREDIT.
AffectsBudget(t) == t.type # "CREDIT"

\* (an answer that counted the candidates instead of the upserts)
SyncAnswerBatchSize(upsertedCount, batch) == Ok(Len(batch))

\* res.json({ success: true, added: result.upsertedCount })
SyncAnswer(upsertedCount, batch) == Ok(upsertedCount)

\* { $inc: { spent: amount } } on the budget document b.
IncSpent(B, b, amount) == (B \ {b}) \cup {[b EXCEPT !.spent = b.spent + amount]}

\* budget.save() after `budget.spent += amount`: $set of the modified path on
\* the document with that _id.
SetSpent(B, b, value) == (B \ {b}) \cup {[b EXCEPT !.spent = value]}

\* ------------------------------------------- POST /api/transactions
PostTransaction(p, cap, U) ==
    \E u \in U, t \in Candidates :
        Accept(p, cap, [op |-> "transaction", user |-> u, txs |-> <<t>>,
                   buds |-> <<>>, id |-> NoId, again |-> FALSE], "tx_save", NoResp)

\* (a handler that went on to the budget before the transaction was stored)
TxSaveDeferred(p) ==
    /\ pc[p] = "tx_save"
    /\ LET t == req[p].txs[1]
       IN  IF ~Castable(t)
           THEN Answer(p, Failed)
           ELSE IF AffectsBudget(t) THEN Goto(p, "tx_find") ELSE Answer(p, Ok(NoAdded))
    /\ UNCHANGED <<Transaction, Budget, nextBudgetId, idx, loc>>
    /\ Frame

\* await newTx.save(): validation, then an unconditional insert.
TxSave(p) ==
    /\ pc[p] = "tx_save"
    /\ LET t == req[p].txs[1]
           u == req[p].user
       IN  IF ~Castable(t)
           THEN /\ Answer(p, Failed)
                /\ UNCHANGED Transaction
           ELSE /\ Transaction' = Transaction (+) SetToBag({TxDoc(t, u)})
                /\ IF AffectsBudget(t) THEN Goto(p, "tx_find") ELSE Answer(p, Ok(NoAdded))
    /\ UNCHANGED <<Budget, nextBudgetId, idx, loc>>
    /\ Frame

\* await Budget.findOne({ userId, category }); budget.spent += amount
TxFindBudget(p) ==
    /\ pc[p] = "tx_find"
    /\ LET t == req[p].txs[1]
           m == BudgetsOf(Budget, req[p].user, t.category)
       IN  IF m = {}
           THEN /\ Answer(p, Ok(NoAdded))
                /\ UNCHANGED loc
           ELSE \E b \in m :
                  /\ loc' = [loc EXCEPT ![p] = [added |-> 0, bid |-> b.id,
                                                spent |-> b.spent + t.amount]]
                  /\ Goto(p, "tx_bsave")
    /\ UNCHANGED <<Transaction, Budget, nextBudgetId, idx>>
    /\ Frame

\* await budget.save(): writes the locally computed total; the document may
\* have been deleted meanwhile (DocumentNotFoundError -> 500).
TxSaveBudget(p) ==
    /\ pc[p] = "tx_bsave"
    /\ LET m == BudgetById(Budget, loc[p].bid)
       IN  IF m = {}
           THEN /\ Answer(p, Failed)
                /\ UNCHANGED Budget
           ELSE /\ Budget' = SetSpent(Budget, CHOOSE b \in m : TRUE, loc[p].spent)
                /\ Answer(p, Ok(NoAdded))
    /\ UNCHANGED <<Transaction, nextBudgetId, idx, loc>>
    /\ Frame

\* --------------------------------------- POST /api/transactions/sync
NextOp(p, again, after) ==
    IF idx[p] < Len(req[p].txs)
    THEN /\ idx' = [idx EXCEPT ![p] = idx[p] + 1]
         /\ Goto(p, again)
    ELSE /\ idx' = [idx EXCEPT ![p] = 1]
         /\ Goto(p, after)

\* The call repeats the call served just before it at p: same user, same
\* candidate list, and that call was answered 200.
Resent(p, u, batch) ==
    /\ pc[p] = "done"
    /\ req[p].op = "sync"
    /\ req[p].user = u
    /\ req[p].txs = batch
    /\ resp[p].status = 200

\* An empty or missing batch answers at once; Model.bulkWrite casts every
\* operation before it sends any, and throws on the first that does not cast.
SyncTransactions(p, cap, U) ==
    \E u \in U, batch \in SeqsUpTo(Candidates, MaxBatch) :
        LET r == [op |-> "sync", user |-> u, txs |-> batch, buds |-> <<>>, id |-> NoId,
                  again |-> Resent(p, u, batch)]
        IN  IF Len(batch) = 0
            THEN Accept(p, cap, r, "done", Ok(0))
            ELSE IF \E i \in 1..Len(batch) : ~Castable(batch[i])
            THEN Accept(p, cap, r, "done", Failed)
            ELSE Accept(p, cap, r, "bulk_find", NoResp)

\* (an upsert that wrote the candidate's fields with $set: a matched document
\* takes the candidate's values)
BulkFindOverwrite(p) ==
    /\ pc[p] = "bulk_find"
    /\ LET u == req[p].user
           t == req[p].txs[idx[p]]
       IN  IF TxMatches(u, t.hash) # {}
           THEN /\ \E d \in TxMatches(u, t.hash) :
                     Transaction' = (Transaction (-) SetToBag({d})) (+) SetToBag({TxDoc(t, u)})
                /\ NextOp(p, "bulk_find", "sync_inc")
           ELSE /\ Goto(p, "bulk_insert")
                /\ UNCHANGED <<Transaction, idx>>
    /\ UNCHANGED <<Budget, nextBudgetId, loc>>
    /\ Frame

\* updateOne { filter: { userId, hash }, $setOnInsert, upsert }: the match.
\* A matched document is left as it is.
BulkFind(p) ==
    /\ pc[p] = "bulk_find"
    /\ IF TxMatches(req[p].user, req[p].txs[idx[p]].hash) # {}
       THEN NextOp(p, "bulk_find", "sync_inc")
       ELSE /\ Goto(p, "bulk_insert")
            /\ UNCHANGED idx
    /\ UNCHANGED <<Transaction, Budget, nextBudgetId, loc>>
    /\ Frame

\* ... and the insert when nothing matched; it counts in upsertedCount.
BulkInsert(p) ==
    /\ pc[p] = "bulk_insert"
    /\ Transaction' = Transaction (+) SetToBag({TxDoc(req[p].txs[idx[p]], req[p].user)})
    /\ loc' = [loc EXCEPT ![p].added = @ + 1]
    /\ NextOp(p, "bulk_find", "sync_inc")
    /\ UNCHANGED <<Budget, nextBudgetId>>
    /\ Frame

\* One iteration of `for (const tx of transactions)`: skip a CREDIT, else
\* Budget.updateOne({ userId, category }, { $inc: { spent: amount } }).
\* After the last iteration: res.json({ added: result.upsertedCount }).
SyncBudget(p) ==
    /\ pc[p] = "sync_inc"
    /\ LET t == req[p].txs[idx[p]]
           m == BudgetsOf(Budget, req[p].user, t.category)
       IN  IF AffectsBudget(t) /\ m # {}
           THEN \E b \in m : Budget' = IncSpent(Budget, b, t.amount)
           ELSE UNCHANGED Budget
    /\ IF idx[p] < Len(req[p].txs)
       THEN /\ idx' = [idx EXCEPT ![p] = idx[p] + 1]
            /\ UNCHANGED <<pc, resp>>
       ELSE /\ Answer(p, SyncAnswer(loc[p].added, req[p].txs))
            /\ UNCHANGED idx
    /\ UNCHANGED <<Transaction, nextBudgetId, loc>>
    /\ Frame

\* ------------------------------------------------- POST /api/budgets

\* Budget ids the requests in flight may still allocate.
Reserved ==
    LET Need(q) == IF pc[q] \in {"bud_find", "bud_insert"} THEN Len(req[q].buds) - idx[q] + 1
                   ELSE IF pc[q] \in {"onb_user", "onb_delete", "onb_insert"} THEN Len(req[q].buds)
                   ELSE 0
    IN  Need(1) + Need(2)

HasRoom(n) == nextBudgetId + Reserved + n - 1 <= MaxBudgetId

\* b._id ? { _id: b._id } : { userId: req.userId, category: b.category }
BudgetFilter(B, b, u) ==
    IF b.id # NoId THEN BudgetById(B, b.id) ELSE BudgetsOf(B, u, b.category)

\* findOneAndUpdate's update { ...b, userId: req.userId } applied as $set to
\* the matched document d: fields absent from b keep their value.
BudgetUpdated(d, b, u) ==
    [id |-> d.id, userId |-> u, category |-> b.category, limit |-> b.limit,
     spent |-> IF b.spent = NoSpent THEN d.spent ELSE b.spent]

\* The document an upsert or insertMany creates: schema default spent = 0.
BudgetDoc(i, b, u) ==
    [id |-> i, userId |-> u, category |-> b.category, limit |-> b.limit,
     spent |-> IF b.spent = NoSpent THEN 0 ELSE b.spent]

PostBudgets(p, cap, U) ==
    \E u \in U, list \in SeqsUpTo(BudgetPayloads(1..(nextBudgetId - 1)), MaxBatch) :
        /\ HasRoom(Len(list))
        /\ LET r == [op |-> "budgets", user |-> u, txs |-> <<>>, buds |-> list, id |-> NoId,
                     again |-> FALSE]
           IN  IF Len(list) = 0
               THEN Accept(p, cap, r, "done", Ok(NoAdded))
               ELSE Accept(p, cap, r, "bud_find", NoResp)

NextBudget(p) ==
    IF idx[p] < Len(req[p].buds)
    THEN /\ idx' = [idx EXCEPT ![p] = idx[p] + 1]
         /\ Goto(p, "bud_find")
    ELSE /\ Answer(p, Ok(NoAdded))
         /\ UNCHANGED idx

\* findOneAndUpdate(filter, update, { upsert: true }): a matched document is
\* updated in place ...
BudgetFind(p) ==
    /\ pc[p] = "bud_find"
    /\ LET b == req[p].buds[idx[p]]
           m == BudgetFilter(Budget, b, req[p].user)
       IN  IF m # {}
           THEN /\ \E d \in m :
                     Budget' = (Budget \ {d}) \cup {BudgetUpdated(d, b, req[p].user)}
                /\ NextBudget(p)
           ELSE /\ Goto(p, "bud_insert")
                /\ UNCHANGED <<Budget, idx>>
    /\ UNCHANGED <<Transaction, nextBudgetId, loc>>
    /\ Frame

\* ... and a new one is inserted when nothing matched (under the _id of the
\* filter when it names one; a duplicate _id makes the store retry as update).
BudgetInsert(p) ==
    /\ pc[p] = "bud_insert"
    /\ LET b == req[p].buds[idx[p]]
           u == req[p].user
       IN  IF b.id = NoId
           THEN /\ Budget' = Budget \cup {BudgetDoc(nextBudgetId, b, u)}
                /\ nextBudgetId' = nextBudgetId + 1
           ELSE /\ Budget' = IF BudgetById(Budget, b.id) = {}
                             THEN Budget \cup {BudgetDoc(b.id, b, u)}
                             ELSE LET d == CHOOSE x \in BudgetById(Budget, b.id) : TRUE
                                  IN  (Budget \ {d}) \cup {BudgetUpdated(d, b, u)}
                /\ UNCHANGED nextBudgetId
    /\ NextBudget(p)
    /\ UNCHANGED <<Transaction, loc>>
    /\ Frame

\* --------------------------------------------- DELETE /api/budgets/:id
DeleteBudget(p, cap, U) ==
    \E u \in U, i \in 1..MaxBudgetId :
        Accept(p, cap, [op |-> "delete", user |-> u, txs |-> <<>>, buds |-> <<>>, id |-> i,
                   again |-> FALSE],
               "bud_delete", NoResp)

\* Budget.findByIdAndDelete(req.params.id)
BudgetDelete(p) ==
    /\ pc[p] = "bud_delete"
    /\ Budget' = Budget \ BudgetById(Budget, req[p].id)
    /\ Answer(p, Ok(NoAdded))
    /\ UNCHANGED <<Transaction, nextBudgetId, idx, loc>>
    /\ Frame

\* ------------------------------------------------ POST /api/onboarding
Onboarding(p, cap, U) ==
    \E u \in U, list \in SeqsUpTo(InitialBudgets, MaxBatch) :
        /\ HasRoom(Len(list))
        /\ Accept(p, cap, [op |-> "onboarding", user |-> u, txs |-> <<>>, buds |-> list,
                      id |-> NoId, again |-> FALSE], "onb_user", NoResp)

\* User.findById, settings update, user.save(): the settings are not part of
\* this model, the step is the handler's first round trip to the store.
OnboardingUser(p) ==
    /\ pc[p] = "onb_user"
    /\ IF Len(req[p].buds) > 0 THEN Goto(p, "onb_delete") ELSE Answer(p, Ok(NoAdded))
    /\ UNCHANGED <<Transaction, Budget, nextBudgetId, idx, loc>>
    /\ Frame

\* (a handler that inserted the initial budgets without clearing the old ones)
OnboardingDeleteNothing(p) ==
    /\ pc[p] = "onb_delete"
    /\ Goto(p, "onb_insert")
    /\ UNCHANGED <<Transaction, Budget, nextBudgetId, idx, loc>>
    /\ Frame

\* Budget.deleteMany({ userId: req.userId })
OnboardingDelete(p) ==
    /\ pc[p] = "onb_delete"
    /\ Budget' = { b \in Budget : b.userId # req[p].user }
    /\ Goto(p, "onb_insert")
    /\ UNCHANGED <<Transaction, nextBudgetId, idx, loc>>
    /\ Frame

\* Budget.insertMany(initialBudgets.map(b => ({ ...b, userId })))
OnboardingInsert(p) ==
    /\ pc[p] = "onb_insert"
    /\ LET list == req[p].buds
       IN  /\ Budget' = Budget \cup { BudgetDoc(nextBudgetId + k - 1, list[k], req[p].user) :
                                         k \in 1..Len(list) }
           /\ nextBudgetId' = nextBudgetId + Len(list)
    /\ Answer(p, Ok(NoAdded))
    /\ UNCHANGED <<Transaction, idx, loc>>
    /\ Frame

\* ------------------------------------------------------- specifications
Arrive(p, cap, U) ==
    \/ PostTransaction(p, cap, U)
    \/ SyncTransactions(p, cap, U)
    \/ PostBudgets(p, cap, U)
    \/ DeleteBudget(p, cap, U)
    \/ Onboarding(p, cap, U)

Step(p) ==
    \/ TxSave(p)
    \/ TxFindBudget(p)
    \/ TxSaveBudget(p)
    \/ BulkFind(p)
    \/ BulkInsert(p)
    \/ SyncBudget(p)
    \/ BudgetFind(p)
    \/ BudgetInsert(p)
    \/ BudgetDelete(p)
    \/ OnboardingUser(p)
    \/ OnboardingDelete(p)
    \/ OnboardingInsert(p)

\* One request at a time, each run to completion before the next arrives.
SeqNext == Arrive(1, MaxReqs, Users) \/ Step(1)

SeqSpec == Init /\ [][SeqNext]_vars

\* Requests overlap: a request that arrives while process 1 is busy with a
\* request of some user is a racing or retried call of that same user and is
\* served by process 2; the handlers in flight take their store round trips
\* in any order.
Next ==
    \/ Arrive(1, MaxOverlap, Users)
    \/ (~Idle(1) /\ Arrive(2, MaxOverlap, {req[1].user}))
    \/ \E p \in Procs : Step(p)

Spec == InitServing /\ [][Next]_vars

\* ------------------------------------------------ POST /api/push-sms
\* The relay service.  A request carries an x-sms-secret header (or none) and
\* a body field that is present or not.

\* (an endpoint that let every request through)
AuthorizedAlways(secret) == TRUE

\* req.headers['x-sms-secret'] !== process.env.SMS_SECRET
Authorized(secret) == secret = SMS_SECRET

PushSms ==
    /\ pushes < MaxPush
    /\ pushes' = pushes + 1
    /\ \E secret \in Headers, hasBody \in BOOLEAN :
         /\ pushReq' = [secret |-> secret, body |-> hasBody]
         /\ IF ~Authorized(secret)
            THEN pushStatus' = 401 /\ UNCHANGED <<Message, queued>>
            ELSE IF ~hasBody
            THEN pushStatus' = 400 /\ UNCHANGED <<Message, queued>>
            ELSE /\ Message' = Message \cup {[id |-> queued + 1, receivedAt |-> queued + 1]}
                 /\ queued' = queued + 1
                 /\ pushStatus' = 200
    /\ UNCHANGED <<pulls, ppc, found, returned, ledger, accounts>>

\* ------------------------------------------------- GET /api/sync-sms
\* Message.find({}).sort({ receivedAt: -1 }).limit(PullLimit)
Newest(M, n) ==
    { m \in M : Cardinality({ o \in M : o.receivedAt > m.receivedAt }) < n }

Returned(ids) == returned (+) SetToBag(ids)

\* await Message.find(...): an empty result is answered at once.
PullFind(p) ==
    /\ ppc[p] = "idle"
    /\ pulls < MaxPull
    /\ pulls' = pulls + 1
    /\ LET messages == Newest(Message, PullLimit)
       IN  /\ found' = [found EXCEPT ![p] = messages]
           /\ ppc' = [ppc EXCEPT ![p] = IF messages = {} THEN "idle" ELSE "pull_delete"]
    /\ UNCHANGED <<Message, queued, pushes, pushReq, pushStatus, returned, ledger, accounts>>

\* The client keeps polling: a sync-sms request beyond the MaxPull counted
\* ones.  The handler is the one of PullFind.
PullFindMore(p) ==
    /\ ppc[p] = "idle"
    /\ pulls = MaxPull
    /\ LET messages == Newest(Message, PullLimit)
       IN  /\ found' = [found EXCEPT ![p] = messages]
           /\ ppc' = [ppc EXCEPT ![p] = IF messages = {} THEN "idle" ELSE "pull_delete"]
    /\ UNCHANGED <<Message, queued, pushes, pushReq, pushStatus, pulls, returned, ledger, accounts>>

\* (a pull whose deleteMany did nothing and whose response carried no message)
PullDeleteNothing(p) ==
    /\ ppc[p] = "pull_delete"
    /\ ppc' = [ppc EXCEPT ![p] = "idle"]
    /\ UNCHANGED <<Message, queued, pushes, pushReq, pushStatus, pulls, found, returned,
                   ledger, accounts>>

\* (a pull that cleared the whole inbox: deleteMany({}))
PullDeleteAll(p) ==
    /\ ppc[p] = "pull_delete"
    /\ Message' = {}
    /\ returned' = Returned({ f.id : f \in found[p] })
    /\ ppc' = [ppc EXCEPT ![p] = "idle"]
    /\ UNCHANGED <<queued, pushes, pushReq, pushStatus, pulls, found, ledger, accounts>>

\* await Message.deleteMany({ _id: { $in: ids } }); res.json({ count, messages })
PullDelete(p) ==
    /\ ppc[p] = "pull_delete"
    /\ Message' = { m \in Message : m.id \notin { f.id : f \in found[p] } }
    /\ returned' = Returned({ f.id : f \in found[p] })
    /\ ppc' = [ppc EXCEPT ![p] = "idle"]
    /\ UNCHANGED <<queued, pushes, pushReq, pushStatus, pulls, found, ledger, accounts>>

InboxNext == PushSms \/ \E p \in Procs : PullFind(p) \/ PullDelete(p)

InboxSpec == Init /\ [][InboxNext]_vars

\* The relay started with more pending messages than one pull returns.
InboxBacklogSpec == InitBacklog /\ [][InboxNext]_vars

\* -------------------------------------------- POST /api/auth/register
\* User.findOne({ username })
UsersNamed(U, name) == { u \in U : u.username = name }

\* (a handler that went on to hash and save without looking the name up)
NeverTaken(U, name) == FALSE

\* if (existingUser)
UsernameTaken(U, name) == UsersNamed(U, name) # {}

\* The request arrives; a body without username or password is answered 400
\* before any store call.
Register(p) ==
    /\ rpc[p] \in {"idle", "done"}
    /\ registers < MaxRegister
    /\ registers' = registers + 1
    /\ \E username \in Usernames \cup {NoName}, password \in BOOLEAN :
          /\ rreq' = [rreq EXCEPT ![p] = [username |-> username, password |-> password,
                                          taken |-> UsersNamed(User, username) # {}]]
          /\ IF username = NoName \/ ~password
             THEN /\ rpc' = [rpc EXCEPT ![p] = "done"]
                  /\ rstatus' = [rstatus EXCEPT ![p] = 400]
             ELSE /\ rpc' = [rpc EXCEPT ![p] = "reg_find"]
                  /\ rstatus' = [rstatus EXCEPT ![p] = 0]
    /\ UNCHANGED <<User, ledger, inbox>>

\* await User.findOne({ username }): a stored user of that name is answered 400.
RegisterFind(p) ==
    /\ rpc[p] = "reg_find"
    /\ IF UsernameTaken(User, rreq[p].username)
       THEN /\ rpc' = [rpc EXCEPT ![p] = "done"]
            /\ rstatus' = [rstatus EXCEPT ![p] = 400]
       ELSE /\ rpc' = [rpc EXCEPT ![p] = "reg_hash"]
            /\ UNCHANGED rstatus
    /\ UNCHANGED <<User, registers, rreq, ledger, inbox>>

\* await bcrypt.hash(password, 10)
RegisterHash(p) ==
    /\ rpc[p] = "reg_hash"
    /\ rpc' = [rpc EXCEPT ![p] = "reg_save"]
    /\ UNCHANGED <<User, registers, rreq, rstatus, ledger, inbox>>

\* await newUser.save(): the unique index on username rejects a second user
\* of a stored name, and the catch block answers 500.
RegisterSave(p) ==
    /\ rpc[p] = "reg_save"
    /\ IF UsersNamed(User, rreq[p].username) # {}
       THEN /\ rstatus' = [rstatus EXCEPT ![p] = 500]
            /\ UNCHANGED User
       ELSE /\ User' = User \cup {[id |-> Cardinality(User) + 1, username |-> rreq[p].username]}
            /\ rstatus' = [rstatus EXCEPT ![p] = 200]
    /\ rpc' = [rpc EXCEPT ![p] = "done"]
    /\ UNCHANGED <<registers, rreq, ledger, inbox>>

RegisterNext ==
    \E p \in Procs : Register(p) \/ RegisterFind(p) \/ RegisterHash(p) \/ RegisterSave(p)

RegisterSpec == Init /\ [][RegisterNext]_vars

\* The relay with a backlog, a client that polls for ever, and handlers that
\* run to completion: a pull that has read is resumed by the event loop and
\* does its deleteMany, and whenever a pull can be started one is.  The
\* device pushes at most MaxPush more messages, at any time, and then stops.
DrainNext == InboxNext \/ \E p \in Procs : PullFindMore(p)

DrainSpec ==
    /\ InitBacklog
    /\ [][DrainNext]_vars
    /\ \A p \in Procs : WF_vars(PullDelete(p))
    /\ WF_vars(\E p \in Procs : PullFind(p) \/ PullFindMore(p))

\* ================================================================ claims

Done(p, op) == pc[p] = "done" /\ req[p].op = op

RECURSIVE SumAmounts(_, _)
SumAmounts(T, S) ==
    IF S = {} THEN 0
    ELSE LET d == CHOOSE x \in S : TRUE
         IN  d.amount * CopiesIn(d, T) + SumAmounts(T, S \ {d})

\* What a recalculation would give: the sum of the amounts of u's stored
\* DEBIT transactions in category c.
DebitSum(T, u, c) ==
    SumAmounts(T, { d \in BagToSet(T) :
                      d.userId = u /\ d.category = c /\ d.type = "DEBIT" })

TxCount(T) == BagCardinality(T)

\* Process p takes a step of its handler.
Acts(p) == <<pc[p], idx[p], loc[p], resp[p]>>' # <<pc[p], idx[p], loc[p], resp[p]>>

\* Stored transactions of user u with hash h, counted with multiplicity.
Copies(u, h) ==
    LET S == TxMatches(u, h)
        RECURSIVE N(_)
        N(R) == IF R = {} THEN 0
                ELSE LET d == CHOOSE x \in R : TRUE IN CopiesIn(d, Transaction) + N(R \ {d})
    IN  N(S)

\* C1 (as claimed): a sync call that repeats the call before it (same user,
\* same candidate list) reports added = 0, creates no Transaction and leaves
\* every Budget as it was.
C1_SyncIdempotent ==
    \A p \in Procs :
        (Done(p, "sync") /\ req[p].again) =>
            /\ resp[p] = Ok(0)
            /\ Transaction = pre[p].tx
            /\ Budget = pre[p].bud

\* C2 (as claimed): whenever no request is in flight, every Budget's spent is
\* the sum of the amounts of its user's stored DEBIT transactions in its
\* category.
C2_SpentEqualsDebitSum ==
    (\A p \in Procs : Idle(p)) =>
        \A b \in Budget : b.spent = DebitSum(Transaction, b.userId, b.category)

\* C3 (as claimed): no two stored Transactions share (userId, hash).
C3_DedupKeyUnique ==
    \A d \in BagToSet(Transaction) : Copies(d.userId, d.hash) = 1

\* C4 (as claimed): when two sync calls of one user that both carry a
\* candidate with hash h have both been answered, however their store
\* operations interleaved, the candidate was inserted exactly once.
C4_RaceSafeAdmission ==
    \A p, q \in Procs :
        (/\ p # q
         /\ Done(p, "sync") /\ Done(q, "sync")
         /\ resp[p].status = 200 /\ resp[q].status = 200
         /\ req[p].user = req[q].user) =>
            \A i \in 1..Len(req[p].txs), j \in 1..Len(req[q].txs) :
                req[p].txs[i].hash = req[q].txs[j].hash =>
                    Copies(req[p].user, req[p].txs[i].hash) = 1

\* C5: every step a POST /transactions or sync handler takes while the
\* candidate it is working on is a CREDIT leaves every Budget (of every user
\* and category) exactly as it was.
C5_CreditLeavesBudgets ==
    [][\A p \in Procs :
          (/\ req[p].op \in {"transaction", "sync"}
           /\ ~Idle(p)
           /\ Acts(p)
           /\ req[p].txs[idx[p]].type = "CREDIT") => Budget' = Budget]_vars

\* C5 witness: a sync call carrying a CREDIT candidate has been answered 200
\* while its user has a Budget in the candidate's category.
C5_Witness ==
    \E p \in Procs :
        /\ Done(p, "sync")
        /\ resp[p].status = 200
        /\ \E i \in 1..Len(req[p].txs) :
              /\ req[p].txs[i].type = "CREDIT"
              /\ BudgetsOf(Budget, req[p].user, req[p].txs[i].category) # {}

\* C6 (as claimed): when POST /budgets has been answered, every Budget that
\* existed before the call and still exists has the spent it had, and every
\* Budget the call created has spent = 0.
C6_UpsertPreservesSpent ==
    \A p \in Procs :
        Done(p, "budgets") =>
            \A b \in Budget :
                IF BudgetById(pre[p].bud, b.id) # {}
                THEN \A o \in BudgetById(pre[p].bud, b.id) : b.spent = o.spent
                ELSE b.spent = 0

\* C7 (as claimed): at most one Budget per (userId, category).
C7_OneBudgetPerKey ==
    \A a, b \in Budget :
        (a.userId = b.userId /\ a.category = b.category) => a = b

\* C8 (as claimed): no message is carried by more than one sync-sms response.
C8_AtMostOnceDelivery ==
    \A i \in DOMAIN returned : returned[i] <= 1

\* C9: the added value of an answered sync call is the number of Transactions
\* the call created, and a call with an empty batch answers added = 0 and
\* leaves Transactions and Budgets as they were.
C9_AddedIsAdmissionCount ==
    \A p \in Procs :
        (Done(p, "sync") /\ resp[p].status = 200) =>
            /\ resp[p].added = TxCount(Transaction) - TxCount(pre[p].tx)
            /\ Len(req[p].txs) = 0 =>
                  /\ resp[p].added = 0
                  /\ Transaction = pre[p].tx
                  /\ Budget = pre[p].bud

\* C9 witness: a sync call of two candidates was answered added = 1: one
\* candidate was new, the other a duplicate.
C9_Witness ==
    \E p \in Procs :
        /\ Done(p, "sync")
        /\ Len(req[p].txs) = 2
        /\ resp[p] = Ok(1)

\* C10 (as claimed): a sync call whose batch holds a candidate that fails
\* (a malformed amount) is still answered 200, and every other candidate of
\* the batch is stored.
C10_PartialSuccess ==
    \A p \in Procs :
        (Done(p, "sync") /\ \E i \in 1..Len(req[p].txs) : ~Castable(req[p].txs[i])) =>
            /\ resp[p].status = 200
            /\ \A i \in 1..Len(req[p].txs) :
                  Castable(req[p].txs[i]) => TxMatches(req[p].user, req[p].txs[i].hash) # {}

\* The Budgets of user u in B, and those of everybody else.
Own(B, u) == { b \in B : b.userId = u }

Foreign(B, u) == { b \in B : b.userId # u }

\* The Budgets of u in B are the entries of list, one document per entry, each
\* with the entry's category and limit and nothing spent.
ExactlyGiven(B, u, list) ==
    /\ Cardinality(Own(B, u)) = Len(list)
    /\ \A b \in Own(B, u) :
          /\ b.spent = 0
          /\ Cardinality({ o \in Own(B, u) : o.category = b.category /\ o.limit = b.limit })
               = Cardinality({ k \in 1..Len(list) :
                                 list[k].category = b.category /\ list[k].limit = b.limit })

\* C11 (as claimed): when POST /onboarding has been answered, the caller's
\* Budgets are exactly the ones given in initialBudgets and the Budgets of
\* other users are as they were.
C11_OnboardingReplaces ==
    \A p \in Procs :
        Done(p, "onboarding") =>
            /\ ExactlyGiven(Budget, req[p].user, req[p].buds)
            /\ Foreign(Budget, req[p].user) = Foreign(pre[p].bud, req[p].user)

\* C11 (amended): when POST /onboarding has been answered, a non-empty
\* initialBudgets has replaced the caller's Budgets by exactly the ones given,
\* an empty one has left every Budget as it was, and in both cases the Budgets
\* of other users are as they were.
C11_OnboardingReplacesGiven ==
    \A p \in Procs :
        Done(p, "onboarding") =>
            /\ IF Len(req[p].buds) > 0
               THEN ExactlyGiven(Budget, req[p].user, req[p].buds)
               ELSE Budget = pre[p].bud
            /\ Foreign(Budget, req[p].user) = Foreign(pre[p].bud, req[p].user)

\* C11 witness: an onboarding call with initial budgets was answered for a
\* user who had a Budget before it, and that Budget is gone.
C11_Witness ==
    \E p \in Procs :
        /\ Done(p, "onboarding")
        /\ Len(req[p].buds) > 0
        /\ \E b \in Own(pre[p].bud, req[p].user) : BudgetById(Budget, b.id) = {}
        /\ Own(Budget, req[p].user) # {}

\* C12: a register request for a username that was taken when it arrived
\* creates no user and is answered 400, and at no time do two Users have the
\* same username.
C12_UsernameUnique ==
    /\ [](\A a, b \in User : a.username = b.username => a = b)
    /\ [][\A p \in Procs :
            (rpc[p] \notin {"idle", "done"} /\ rpc'[p] # rpc[p] /\ rreq[p].taken) =>
                /\ User' = User
                /\ rpc'[p] = "done" /\ rstatus'[p] = 400]_vars

\* C12 witness: a register request for a stored username has been answered
\* 400 and one User has that name.
C12_Witness ==
    \E p \in Procs :
        /\ rpc[p] = "done"
        /\ rreq[p].taken
        /\ rstatus[p] = 400
        /\ Cardinality(UsersNamed(User, rreq[p].username)) = 1

\* C13: a push-sms request whose secret header is not the configured secret
\* is answered 401 and leaves the inbox as it was, and a push-sms request
\* that changes the inbox carried the configured secret and a body, and
\* appended one message.
C13_PushAuthenticated ==
    [][pushes' # pushes =>
          /\ pushReq'.secret # SMS_SECRET => (pushStatus' = 401 /\ Message' = Message)
          /\ Message' # Message =>
                /\ pushReq'.secret = SMS_SECRET /\ pushReq'.body
                /\ Message \subseteq Message'
                /\ Cardinality(Message') = Cardinality(Message) + 1]_vars

\* C13 witness: a request with a wrong secret has just been answered 401
\* while a message pushed earlier is pending.
C13_Witness ==
    /\ pushReq.secret = "guess"
    /\ pushReq.body
    /\ pushStatus = 401
    /\ Message # {}

\* C14 (as claimed): in every state, between the steps of a call too, each
\* Budget's spent is at most the sum of the amounts of its user's stored
\* DEBIT transactions in its category.
C14_NoDoubleAggregation ==
    \A b \in Budget : b.spent <= DebitSum(Transaction, b.userId, b.category)

\* Process p has answered 200 to a POST /transactions or sync request that
\* carried the single DEBIT candidate t.
Aggregated(p, t) ==
    /\ pc[p] = "done"
    /\ req[p].op \in {"transaction", "sync"}
    /\ resp[p].status = 200
    /\ req[p].txs = <<t>>
    /\ t.type = "DEBIT"

\* C15 (as claimed): when two overlapping requests of one user have each
\* admitted and aggregated a DEBIT transaction in the same category, the
\* Budget of that category has gained the sum of the two amounts.
C15_AtomicAggregation ==
    \A t1, t2 \in Candidates :
        (/\ Aggregated(1, t1) /\ Aggregated(2, t2)
         /\ req[1].user = req[2].user
         /\ t1.category = t2.category
         /\ t1.hash # t2.hash) =>
            \A b \in BudgetsOf(Budget, req[1].user, t1.category) :
                \A o \in BudgetById(pre[1].bud, b.id) :
                    b.spent = o.spent + t1.amount + t2.amount

\* C16: whenever a step of a POST /transactions or sync handler changes a
\* Budget on behalf of a candidate, a Transaction of the caller with the
\* candidate's hash is already stored, and no step of these handlers, a
\* failing one included, removes a stored Transaction.
C16_PersistBeforeAggregate ==
    [][\A p \in Procs :
          (Acts(p) /\ pc[p] \in {"tx_save", "tx_find", "tx_bsave",
                                  "bulk_find", "bulk_insert", "sync_inc"}) =>
              /\ Budget' # Budget =>
                    TxMatches(req[p].user, req[p].txs[idx[p]].hash) # {}
              /\ Transaction \sqsubseteq Transaction']_vars

\* C16 witness: POST /transactions stored its transaction and then failed in
\* the aggregation step (the Budget it had read was deleted meanwhile); the
\* transaction is stored.
C16_Witness ==
    \E p \in Procs :
        /\ Done(p, "transaction")
        /\ resp[p] = Failed
        /\ Castable(req[p].txs[1])
        /\ TxDoc(req[p].txs[1], req[p].user) \in BagToSet(Transaction)

\* The documents of T that belong to user u and carry hash h.
Stored(T, u, h) == { d \in BagToSet(T) : d.userId = u /\ d.hash = h }

\* Candidate t of a request of process p was a duplicate when the request
\* arrived: the caller already stored a Transaction with its hash.
Duplicate(p, t) == Stored(pre[p].tx, req[p].user, t.hash) # {}

C18_BudgetIsolation ==
    \A p \in Procs :
        (Done(p, "budgets") \/ Done(p, "delete")) =>
            Foreign(pre[p].bud, req[p].user) \subseteq Budget

\* C19: when a POST /transactions or sync request has been served, every
\* Transaction it created has the caller's userId, whatever userId the payload
\* carried, and after a sync answered 200 each candidate whose hash the caller
\* had not stored is stored exactly once for the caller, whether or not
\* another user stores that hash.
C19_TransactionOwnership ==
    \A p \in Procs :
        (Done(p, "transaction") \/ Done(p, "sync")) =>
            /\ \A d \in BagToSet(Transaction) :
                  CopiesIn(d, Transaction) > CopiesIn(d, pre[p].tx) => d.userId = req[p].user
            /\ (req[p].op = "sync" /\ resp[p].status = 200) =>
                  \A i \in 1..Len(req[p].txs) :
                      ~Duplicate(p, req[p].txs[i]) => Copies(req[p].user, req[p].txs[i].hash) = 1

\* C19 witness: a sync call has stored, for its caller, a candidate that
\* carried another user's userId and whose hash that other user had stored.
C19_Witness ==
    \E p \in Procs :
        /\ Done(p, "sync")
        /\ resp[p].status = 200
        /\ \E i \in 1..Len(req[p].txs) :
              LET t == req[p].txs[i]
              IN  /\ t.userId \notin {NoUser, req[p].user}
                  /\ Stored(pre[p].tx, t.userId, t.hash) # {}
                  /\ ~Duplicate(p, t)
                  /\ Copies(req[p].user, t.hash) = 1

\* C20: a sync-sms response carries at most PullLimit messages; the delete
\* of a pull removes the messages of its response and leaves every other
\* message, one pushed since the pull's read included, in the inbox; a pull
\* that found nothing deletes nothing.
C20_PullRemovesWhatItReturns ==
    /\ [](\A p \in Procs : Cardinality(found[p]) <= PullLimit)
    /\ [][\A p \in Procs :
            /\ (ppc[p] = "pull_delete" /\ ppc'[p] = "idle") =>
                  /\ Message' = Message \ found[p]
                  /\ returned' = returned (+) SetToBag({ f.id : f \in found[p] })
            /\ (ppc[p] = "idle" /\ pulls' # pulls) => Message' = Message]_vars

\* C20 witness: a pull has returned PullLimit messages and deleted them; the
\* inbox still holds an older message that was beyond the limit and a newer
\* one that its read had not seen.
C20_Witness ==
    \E p \in Procs :
        /\ ppc[p] = "idle"
        /\ Cardinality(found[p]) = PullLimit
        /\ found[p] \cap Message = {}
        /\ \A f \in found[p] : f.id \in DOMAIN returned
        /\ \E m \in Message : \A f \in found[p] : m.receivedAt < f.receivedAt
        /\ \E m \in Message : \A f \in found[p] : m.receivedAt > f.receivedAt

\* C21: with pushes that stop and pulls that keep being made and completing,
\* from some time on the inbox is empty and every message that was ever
\* queued has been carried by a sync-sms response.
C21_InboxDrains ==
    <>[](/\ Message = {}
         /\ \A i \in 1..queued : BagIn(i, returned))

\* C21 witness: the inbox is empty after a backlog larger than one pull
\* returns and a later push; the oldest message, which the first pull left
\* behind, and the pushed one have both been returned.
C21_Witness ==
    /\ Message = {}
    /\ queued > Backlog
    /\ pulls >= 2
    /\ \A i \in 1..queued : BagIn(i, returned)
    /\ \A p \in Procs : ppc[p] = "idle"

====
